---- MODULE Spec2Model ----
(***************************************************************************)
(* TradingBot (src/bot.py): the MA-crossover strategy loop against the     *)
(* broker gateway.  One thread of control runs run(); the only concurrent  *)
(* context is the SIGINT/SIGTERM handler, which may run between any two    *)
(* steps of that thread.  The broker gateway (ib_insync) is the            *)
(* environment: its answers and its failures are nondeterministic.         *)
(* Time is counted in whole seconds: every ib.sleep(1) is one tick.        *)
(*                                                                         *)
(* Spec is the whole run.  FlatSpec is the run on an account that is flat  *)
(* at start.  PnlSpec, SignalSpec and GateSpec start inside get_pnl,       *)
(* get_signal and is_market_hours with the inputs already read, and apply  *)
(* the rest of the function to them.                                       *)
(***************************************************************************)
EXTENDS Integers, Sequences, FiniteSets

\* ------------------------------------------------------------------ bounds
\* longest check_interval_seconds tried
MaxInterval == 2
\* evaluations (calls of execute_strategy) in one run; after that many the
\* market stays closed
MaxEvals == 2
\* longest bar history the broker returns
MaxBars == 2
\* seconds since cancellation are counted up to this value
LatencyCap == 2

\* largest price and average cost given to the P&L computation
MaxPrice == 3
\* largest position size given to the P&L computation
MaxQty == 2

\* longest moving-average period given to the signal computation
MaxPeriod == 3
\* largest close given to the signal computation
MaxClose == 3

\* -------------------------------------------------------- program constants
\* timeout = 30 in place_order
FillTimeout == 30
\* self.ib.sleep(2) in get_pnl
QuoteWait == 2

\* ---------------------------------------------------------------- helpers
Max(a, b) == IF a >= b THEN a ELSE b
Min(a, b) == IF a <= b THEN a ELSE b
Abs(x) == IF x < 0 THEN -x ELSE x

RECURSIVE SumSeq(_)
SumSeq(s) == IF s = <<>> THEN 0 ELSE Head(s) + SumSeq(Tail(s))

\* bars[-period:], for period >= 1
LastN(s, n) == IF Len(s) <= n THEN s ELSE SubSeq(s, Len(s) - n + 1, Len(s))

\* ------------------------------------------------------------ input domains
\* (ma_fast_period, ma_slow_period)
PeriodPairs == {<<1, 2>>, <<2, 1>>}
Sizes == {1, 2}
Closes == {1, 2}
Configs ==
  {[ma_fast_period |-> pp[1], ma_slow_period |-> pp[2],
    position_size |-> n, check_interval_seconds |-> i] :
     pp \in PeriodPairs, n \in Sizes, i \in 1..MaxInterval}

BarSeqs == UNION {[1..n -> Closes] : n \in 0..MaxBars}

\* broker holdings are counted in half shares, so that int() has something
\* to truncate; avgCost and prices are counted in whole currency units
\* the holding the account has when the bot starts: short, flat, half a
\* share, long
InitHoldings == {-2, 0, 1, 2, 4}
AvgCosts == {1, 3}

\* a quote field is either nan (no tick yet) or a number
QuoteFields == {[nan |-> TRUE, v |-> 0], [nan |-> FALSE, v |-> 0],
                [nan |-> FALSE, v |-> -1], [nan |-> FALSE, v |-> 2]}
Tickers == [last : QuoteFields, close : QuoteFields]

\* datetime.now(): weekday() (Monday = 0) and wall-clock time
Timestamps ==
  [weekday : {0, 4, 5, 6}, hour : {9, 12, 16}, minute : {0, 30},
   second : {0}, microsecond : {0, 1}]

\* trade.orderStatus.status: "Submitted" stands for every status of a live
\* order, "Cancelled" for the two cancelled ones (a rejection included)
NoTrade == "NoTrade"
\* a local that is not bound
NoTimestamp == "NoTimestamp"
NoTicker == "NoTicker"
DoneStates == {"Filled", "Cancelled"}

NoCalls == [positions |-> 0, reqHistoricalData |-> 0, placeOrder |-> 0,
            reqMktData |-> 0, cancelMktData |-> 0]

VARIABLES
  pc,         \* position of the thread in run()
  cfg,        \* self.config
  running,    \* self.running
  sigReceived,\* a shutdown signal has been delivered
  connected,  \* self.ib.isConnected()
  disconnects,\* calls of self.ib.disconnect()
  position,   \* self.position
  avg_cost,   \* self.avg_cost
  es_position,\* execute_strategy's local position
  brokerPos,  \* the account's holding at the broker, in half shares
  working,    \* orders still working at the broker after place_order returned
  bars,       \* get_signal's local bars
  signal,     \* execute_strategy's local signal
  order,      \* the (action, quantity) handed to place_order
  trade,      \* trade.orderStatus.status of the order being waited for
  elapsed,    \* time.time() - start in place_order, in seconds
  poResult,   \* what the latest place_order returned
  waitLeft,   \* seconds left of get_pnl's ib.sleep(2)
  subs,       \* market-data subscriptions open at the gateway
  pnl,        \* what the latest get_pnl returned
  sleepLeft,  \* iterations left of run's interval loop
  gate,       \* what is_market_hours returned in this iteration
  calls,      \* broker calls made in this loop iteration
  loopError,  \* the call whose exception reached run's except clause
  evals,      \* calls of execute_strategy so far
  cancelAge,  \* seconds since self.running was set to False (-1: it was not)
  now,        \* is_market_hours's local now, while the function is under way
  ticker      \* get_pnl's local ticker, while the price is being chosen

vars == <<pc, cfg, running, sigReceived, connected, disconnects, position,
          avg_cost, es_position, brokerPos, working, bars, signal, order,
          trade, elapsed, poResult, waitLeft, subs, pnl, sleepLeft,
          gate, calls, loopError, evals, cancelAge, now, ticker>>

NoOrder == [action |-> "NONE", quantity |-> 0]
NoPnl == [kind |-> "unset", v |-> 0]

LoopPcs == {"while", "gate", "position", "history", "signal", "decide",
            "submit", "poll", "pnl", "pnl_wait", "pnl_read", "sleep"}
EvalPcs == {"position", "history", "signal", "decide", "submit", "poll",
            "pnl", "pnl_wait", "pnl_read"}

\* ----------------------------------------------------------- pure functions
\* a calculate_ma without the length test: it averages what there is
calculate_ma_short(b, period) ==
  [ok |-> TRUE, sum |-> SumSeq(LastN(b, period)),
   period |-> IF Len(b) < period THEN Len(b) ELSE period]

\* calculate_ma: None when there are fewer bars than the period, else the
\* mean of the last `period` closes, kept as the fraction sum / period
calculate_ma(b, period) ==
  IF Len(b) < period
    THEN [ok |-> FALSE, sum |-> 0, period |-> period]
    ELSE [ok |-> TRUE, sum |-> SumSeq(LastN(b, period)), period |-> period]

\* a comparison that is also true of equal averages
MaGreaterOrEqual(x, y) == x.sum * y.period >= y.sum * x.period

\* ma_fast > ma_slow on the two fractions
MaGreater(x, y) == x.sum * y.period > y.sum * x.period

\* get_signal after the bars were fetched; "NONE" is Python's None
classify(b, c) ==
  IF b = <<>> THEN "NONE"
  ELSE LET ma_fast == calculate_ma(b, c.ma_fast_period)
           ma_slow == calculate_ma(b, c.ma_slow_period)
       IN  IF ~ma_fast.ok \/ ~ma_slow.ok THEN "NONE"
           ELSE IF MaGreater(ma_fast, ma_slow) THEN "BUY"
           ELSE IF MaGreater(ma_slow, ma_fast) THEN "SELL"
           ELSE "HOLD"

\* int(pos.position) on a holding counted in half shares: truncation to zero
IntTrunc(h) == IF h >= 0 THEN h \div 2 ELSE -((-h) \div 2)

\* seconds since midnight, without the microsecond
SecondOfDay(t) == (t.hour * 60 + t.minute) * 60 + t.second

\* a strict comparison: a < b
TimeLess(a, b) ==
  \/ SecondOfDay(a) < SecondOfDay(b)
  \/ SecondOfDay(a) = SecondOfDay(b) /\ a.microsecond < b.microsecond

\* a <= b on two datetimes of the same day
TimeLeq(a, b) ==
  \/ SecondOfDay(a) < SecondOfDay(b)
  \/ SecondOfDay(a) = SecondOfDay(b) /\ a.microsecond <= b.microsecond

\* is_market_hours on a given datetime.now()
is_market_hours(dt) ==
  IF dt.weekday > 4 THEN FALSE
  ELSE LET market_open == [dt EXCEPT !.hour = 9, !.minute = 30,
                                     !.second = 0, !.microsecond = 0]
           market_close == [dt EXCEPT !.hour = 16, !.minute = 0,
                                      !.second = 0, !.microsecond = 0]
       IN  TimeLeq(market_open, dt) /\ TimeLeq(dt, market_close)

\* a sizing that buys max_position also when short
sizing_flat(sig, p, max_position) ==
  IF sig = "BUY" /\ p <= 0
    THEN [action |-> "BUY", quantity |-> max_position]
  ELSE IF sig = "SELL" /\ p > 0
    THEN [action |-> "SELL", quantity |-> p]
  ELSE [action |-> "NONE", quantity |-> 0]

\* the order execute_strategy hands to place_order, NoOrder for "No action"
sizing(sig, p, max_position) ==
  IF sig = "BUY" /\ p <= 0
    THEN [action |-> "BUY",
          quantity |-> IF p < 0 THEN Abs(p) + max_position ELSE max_position]
  ELSE IF sig = "SELL" /\ p > 0
    THEN [action |-> "SELL", quantity |-> p]
  ELSE NoOrder

\* Python truth value of a float, and x > 0 (nan compares false)
Truthy(x) == x.nan \/ x.v # 0
Positive(x) == ~x.nan /\ x.v > 0

\* a choice of price without the fallback to the prior close
current_price_last_only(t) ==
  IF Truthy(t.last) /\ Positive(t.last) THEN [ok |-> TRUE, v |-> t.last.v]
  ELSE [ok |-> FALSE, v |-> 0]

\* get_pnl's choice of current_price; ok = FALSE is the warning branch
current_price(t) ==
  IF Truthy(t.last) /\ Positive(t.last) THEN [ok |-> TRUE, v |-> t.last.v]
  ELSE IF Truthy(t.close) /\ Positive(t.close) THEN [ok |-> TRUE, v |-> t.close.v]
  ELSE [ok |-> FALSE, v |-> 0]

unrealized_pnl(price, cost, qty) == (price - cost) * qty

\* trade.isDone()
isDone(st) == st \in DoneStates

\* signed share count of an order
Signed(o) == IF o.action = "BUY" THEN o.quantity ELSE -o.quantity

\* one second passes
Tick(n) ==
  cancelAge' = IF cancelAge < 0 THEN cancelAge ELSE Min(cancelAge + n, LatencyCap)

\* -------------------------------------------------------------------- Init
\* the state after TradingBot(): __init__ has run, the handlers are installed
Init ==
  /\ pc = "init"
  /\ cfg \in Configs
  /\ running = FALSE
  /\ sigReceived = FALSE
  /\ connected = FALSE
  /\ disconnects = 0
  /\ position = 0
  /\ avg_cost = 0
  /\ es_position = 0
  /\ brokerPos \in InitHoldings
  /\ working = <<>>
  /\ bars = <<>>
  /\ signal = "UNSET"
  /\ order = NoOrder
  /\ trade = NoTrade
  /\ elapsed = 0
  /\ poResult = "none"
  /\ waitLeft = 0
  /\ subs = 0
  /\ pnl = NoPnl
  /\ sleepLeft = 0
  /\ gate = "none"
  /\ calls = NoCalls
  /\ loopError = "none"
  /\ evals = 0
  /\ cancelAge = -1
  /\ now = NoTimestamp
  /\ ticker = NoTicker

\* ------------------------------------------------------------ signal handler
\* _signal_handler: may run between any two steps while the process lives
signal_handler ==
  /\ pc # "returned"
  /\ running' = FALSE
  /\ sigReceived' = TRUE
  /\ cancelAge' = IF running /\ pc \in LoopPcs THEN 0 ELSE cancelAge
  /\ UNCHANGED <<evals, pc, cfg, connected, disconnects, position, avg_cost,
                 es_position, brokerPos, working, bars, signal, order, trade,
                 elapsed, poResult, waitLeft, subs, pnl, sleepLeft,
                 gate, calls, loopError>>
  /\ UNCHANGED <<now, ticker>>

\* ------------------------------------------------------------------- run
\* variables no step of run's prologue or epilogue touches
Frame ==
  UNCHANGED <<evals, cfg, sigReceived, position, avg_cost, es_position, brokerPos,
              working, bars, signal, order, trade, elapsed, poResult, waitLeft, subs, pnl, sleepLeft, gate, calls>>

\* run calls connect: self.ib.connect succeeds or raises
connect_gateway ==
  /\ pc \in {"init"}
  /\ \/ /\ connected' = TRUE
        /\ pc' = "qualify"
     \/ /\ connected' = FALSE
        /\ pc' = "returned"
  /\ UNCHANGED <<running, disconnects, loopError, cancelAge>>
  /\ Frame
  /\ UNCHANGED <<now, ticker>>

\* connect goes on to qualifyContracts; on an exception connect returns
\* False and run returns without disconnecting
connect_qualify ==
  /\ pc = "qualify"
  /\ \/ pc' = "start"
     \/ pc' = "returned"
  /\ UNCHANGED <<running, connected, disconnects, loopError, cancelAge>>
  /\ Frame
  /\ UNCHANGED <<now, ticker>>

\* self.running = True
run_start ==
  /\ pc = "start"
  /\ running' = TRUE
  /\ cancelAge' = -1
  /\ pc' = "while"
  /\ UNCHANGED <<connected, disconnects, loopError>>
  /\ Frame
  /\ UNCHANGED <<now, ticker>>

\* while self.running: the test that opens an iteration; what the previous
\* iteration's evaluation left in its locals is dropped here
run_while ==
  /\ pc = "while"
  /\ pc' = IF running THEN "gate" ELSE "finally"
  /\ gate' = "none"
  /\ calls' = NoCalls
  /\ signal' = "UNSET"
  /\ order' = NoOrder
  /\ trade' = NoTrade
  /\ elapsed' = 0
  /\ pnl' = NoPnl
  /\ UNCHANGED <<evals, cfg, running, sigReceived, connected, disconnects, position,
                 avg_cost, es_position, brokerPos, working, bars, poResult,
                 waitLeft, subs, sleepLeft, loopError, cancelAge>>
  /\ UNCHANGED <<now, ticker>>

\* a run_gate that evaluates the strategy whatever the gate says
GateBranchAlways(open) == "position"

\* an evaluation that starts at the signal and sizes on the position it
\* still holds from the cycle before
GateBranchNoQuery(open) == IF open THEN "history" ELSE "sleep"

\* if self.is_market_hours(): execute_strategy, else "Outside market hours"
GateBranch(open) == IF open THEN "position" ELSE "sleep"

\* one reading of the clock, then the branch
run_gate ==
  /\ pc = "gate"
  /\ \E dt \in Timestamps :
       LET open == is_market_hours(dt)
       IN  /\ gate' = IF open THEN "open" ELSE "closed"
           /\ pc' = GateBranch(open)
  /\ IF pc' = "position"
       THEN /\ evals < MaxEvals
            /\ evals' = evals + 1
            /\ sleepLeft' = sleepLeft
       ELSE /\ evals' = evals
            /\ sleepLeft' = cfg.check_interval_seconds
  /\ UNCHANGED <<cfg, running, sigReceived, connected, disconnects, position,
                 avg_cost, es_position, brokerPos, working, bars, signal,
                 order, trade, elapsed, poResult, waitLeft, subs, pnl,
                 calls, loopError, cancelAge>>
  /\ UNCHANGED <<now, ticker>>

\* an exception handler inside the loop that logs and goes on looping
run_except_resume == "sleep"

\* an exception that leaves the while loop: except Exception logs it, the
\* finally clause follows
run_except == "finally"

\* ------------------------------------------------------- execute_strategy
Called(name) == [calls EXCEPT ![name] = @ + 1]

\* get_position: self.ib.positions() raises (nothing in execute_strategy or
\* get_position catches it) or lists the account's holdings; the entry of the
\* ticker is there when the holding is not zero
get_position ==
  /\ pc = "position"
  /\ calls' = Called("positions")
  /\ poResult' = "none"
  /\ \/ /\ loopError' = "positions"
        /\ pc' = run_except
        /\ UNCHANGED <<position, avg_cost, es_position>>
     \/ /\ IF brokerPos # 0
             THEN /\ position' = IntTrunc(brokerPos)
                  /\ avg_cost' \in AvgCosts
             ELSE /\ position' = 0
                  /\ avg_cost' = 0
        /\ es_position' = position'
        /\ pc' = "history"
        /\ UNCHANGED loopError
  /\ UNCHANGED <<evals, cfg, running, sigReceived, connected, disconnects, brokerPos,
                 working, bars, signal, order, trade, elapsed, waitLeft, subs, pnl, sleepLeft, gate, cancelAge>>
  /\ UNCHANGED <<now, ticker>>

\* get_historical_data: the bars, or [] when reqHistoricalData raises
get_historical_data ==
  /\ pc = "history"
  /\ calls' = Called("reqHistoricalData")
  /\ \/ bars' \in BarSeqs
     \/ bars' = <<>>
  /\ pc' = "signal"
  /\ UNCHANGED <<evals, cfg, running, sigReceived, connected, disconnects, position,
                 avg_cost, es_position, brokerPos, working, signal, order,
                 trade, elapsed, poResult, waitLeft, subs, pnl,
                 sleepLeft, gate, loopError, cancelAge>>
  /\ UNCHANGED <<now, ticker>>

\* the rest of get_signal, and execute_strategy's return when it is None
get_signal ==
  /\ pc = "signal"
  /\ signal' = classify(bars, cfg)
  /\ bars' = <<>>
  /\ IF signal' = "NONE"
       THEN /\ pc' = "sleep"
            /\ sleepLeft' = cfg.check_interval_seconds
       ELSE /\ pc' = "decide"
            /\ sleepLeft' = sleepLeft
  /\ UNCHANGED <<evals, cfg, running, sigReceived, connected, disconnects, position,
                 avg_cost, es_position, brokerPos, working, order, trade,
                 elapsed, poResult, waitLeft, subs, pnl, gate, calls,
                 loopError, cancelAge>>
  /\ UNCHANGED <<now, ticker>>

\* the branch on (signal, position): an order for place_order, or no action
execute_strategy ==
  /\ pc = "decide"
  /\ order' = sizing(signal, es_position, cfg.position_size)
  /\ pc' = IF order' = NoOrder THEN "pnl" ELSE "submit"
  /\ UNCHANGED <<evals, cfg, running, sigReceived, connected, disconnects, position,
                 avg_cost, es_position, brokerPos, working, bars, signal,
                 trade, elapsed, poResult, waitLeft, subs, pnl,
                 sleepLeft, gate, calls, loopError, cancelAge>>
  /\ UNCHANGED <<now, ticker>>

\* ------------------------------------------------------------ place_order
\* a place_order without its except clause: the exception reaches run
place_order_raise ==
  [poResult |-> "none", pc |-> "finally", loopError |-> "placeOrder"]

\* except Exception: log, return False; execute_strategy goes on to get_pnl
place_order_except ==
  [poResult |-> "False", pc |-> "pnl", loopError |-> "none"]

\* a caller that places the order again when place_order returned False
AfterOrderRetry(result) == IF result = "False" THEN "submit" ELSE "pnl"

\* execute_strategy drops place_order's result and goes on to get_pnl
AfterOrder(result) == "pnl"

\* self.ib.placeOrder: the trade, or an exception that place_order catches
place_order_submit ==
  /\ pc = "submit"
  /\ calls' = Called("placeOrder")
  /\ \/ /\ trade' = "Submitted"
        /\ elapsed' = 0
        /\ pc' = "poll"
        /\ UNCHANGED <<poResult, loopError>>
     \/ /\ poResult' = place_order_except.poResult
        /\ loopError' = IF place_order_except.loopError = "none"
                          THEN loopError ELSE place_order_except.loopError
        /\ pc' = IF place_order_except.pc = "pnl"
                   THEN AfterOrder(poResult') ELSE place_order_except.pc
        /\ UNCHANGED <<trade, elapsed>>
  /\ UNCHANGED <<evals, cfg, running, sigReceived, connected, disconnects,
                 position, avg_cost, es_position, brokerPos, working, bars,
                 signal, order, waitLeft, subs, pnl, sleepLeft, gate,
                 cancelAge>>
  /\ UNCHANGED <<now, ticker>>

\* what the broker may do to a submitted order during one ib.sleep(1)
BrokerUpdate(st) == IF st = "Submitted"
                      THEN {"Submitted", "Filled", "Cancelled"}
                      ELSE {st}

\* a wait loop without the timeout
KeepWaitingForever(st, el) == ~isDone(st)

\* while not trade.isDone() and (time.time() - start) < timeout
KeepWaiting(st, el) == ~isDone(st) /\ el < FillTimeout

\* what place_order returns once the wait loop is left
place_order_result(st) == IF st = "Filled" THEN "True" ELSE "False"

\* place_order returns without cancelling: an order that is not done stays
\* at the broker
LeftWorking(st, o, w) == IF isDone(st) THEN w ELSE Append(w, Signed(o))

\* a place_order that adds a fill to the position it holds
position_tracked(p, o, st) == IF st = "Filled" THEN p + Signed(o) ELSE p

\* self.position after the status was examined: place_order logs the fill
\* and assigns nothing
position_after_order(p, o, st) == p

\* one turn of the wait loop: ib.sleep(1), during which the broker may
\* report on the order, then the loop test; when the test fails place_order
\* returns True iff the status is Filled
place_order_poll ==
  /\ pc = "poll"
  /\ KeepWaiting(trade, elapsed)
  /\ Tick(1)
  /\ \E st \in BrokerUpdate(trade) :
       /\ trade' = st
       /\ brokerPos' = IF st = "Filled"
                         THEN brokerPos + 2 * Signed(order) ELSE brokerPos
       /\ position' = position_after_order(position, order, st)
       /\ IF KeepWaiting(st, elapsed + 1)
            THEN /\ elapsed' = elapsed + 1
                 /\ UNCHANGED <<pc, poResult, working>>
            ELSE /\ elapsed' = 0
                 /\ poResult' = place_order_result(st)
                 /\ working' = LeftWorking(st, order, working)
                 /\ pc' = AfterOrder(poResult')
  /\ UNCHANGED <<evals, cfg, running, sigReceived, connected, disconnects,
                 avg_cost, es_position, bars, signal,
                 order, waitLeft, subs, pnl, sleepLeft,
                 gate, calls, loopError>>
  /\ UNCHANGED <<now, ticker>>

\* an order left working fills later, whatever the bot is doing
broker_fill ==
  /\ pc # "returned"
  /\ \E i \in 1..Len(working) :
       /\ brokerPos' = brokerPos + 2 * working[i]
       /\ working' = SubSeq(working, 1, i - 1) \o SubSeq(working, i + 1, Len(working))
  /\ UNCHANGED <<evals, pc, cfg, running, sigReceived, connected, disconnects,
                 position, avg_cost, es_position, bars, signal, order, trade,
                 elapsed, poResult, waitLeft, subs, pnl, sleepLeft,
                 gate, calls, loopError, cancelAge>>
  /\ UNCHANGED <<now, ticker>>

\* ---------------------------------------------------------------- get_pnl
\* a test that never takes the early return
is_flat_never(p) == FALSE

\* if self.position == 0
is_flat(p) == p = 0

\* position == 0 returns 0.0; otherwise reqMktData subscribes (or raises,
\* which nothing below run's except clause catches)
get_pnl_start ==
  /\ pc = "pnl"
  /\ IF is_flat(position)
       THEN /\ pnl' = [kind |-> "value", v |-> 0]
            /\ pc' = "sleep"
            /\ sleepLeft' = cfg.check_interval_seconds
            /\ UNCHANGED <<subs, waitLeft, calls, loopError>>
       ELSE /\ calls' = Called("reqMktData")
            /\ \/ /\ subs' = subs + 1
                  /\ waitLeft' = QuoteWait
                  /\ pc' = "pnl_wait"
                  /\ UNCHANGED loopError
               \/ /\ loopError' = "reqMktData"
                  /\ pc' = run_except
                  /\ UNCHANGED <<subs, waitLeft>>
            /\ UNCHANGED <<pnl, sleepLeft>>
  /\ UNCHANGED <<evals, cfg, running, sigReceived, connected, disconnects, position,
                 avg_cost, es_position, brokerPos, working, bars, signal,
                 order, trade, elapsed, poResult, gate, cancelAge>>
  /\ UNCHANGED <<now, ticker>>

\* self.ib.sleep(2), second by second
get_pnl_wait ==
  /\ pc = "pnl_wait"
  /\ waitLeft > 0
  /\ waitLeft' = waitLeft - 1
  /\ Tick(1)
  /\ pc' = IF waitLeft' = 0 THEN "pnl_read" ELSE pc
  /\ UNCHANGED <<evals, cfg, running, sigReceived, connected, disconnects, position,
                 avg_cost, es_position, brokerPos, working, bars, signal,
                 order, trade, elapsed, poResult, subs, pnl, sleepLeft, gate,
                 calls, loopError>>
  /\ UNCHANGED <<now, ticker>>

\* the rest of get_pnl on the ticker t.  The price branches: the warning
\* branch returns None at once; the other two go on to cancelMktData and
\* the P&L
get_pnl_price(t) ==
  LET price == current_price(t)
  IN  IF ~price.ok
        THEN /\ pnl' = [kind |-> "none", v |-> 0]
             /\ UNCHANGED <<subs, calls>>
        ELSE /\ subs' = subs - 1
             /\ calls' = Called("cancelMktData")
             /\ pnl' = [kind |-> "value",
                        v |-> unrealized_pnl(price.v, avg_cost, position)]

\* the ticker is read as the wait left it
get_pnl_read ==
  /\ pc = "pnl_read"
  /\ \E t \in Tickers : get_pnl_price(t)
  /\ pc' = "sleep"
  /\ sleepLeft' = cfg.check_interval_seconds
  /\ UNCHANGED <<evals, cfg, running, sigReceived, connected, disconnects, position,
                 avg_cost, es_position, brokerPos, working, bars, signal,
                 order, trade, elapsed, poResult, waitLeft, gate, loopError,
                 cancelAge>>
  /\ UNCHANGED <<now, ticker>>

\* ------------------------------------------------------ run: interval loop
\* for _ in range(check_interval): one turn that sleeps
run_sleep ==
  /\ pc = "sleep"
  /\ sleepLeft > 0 /\ running
  /\ sleepLeft' = sleepLeft - 1
  /\ Tick(1)
  /\ UNCHANGED <<evals, pc, cfg, running, sigReceived, connected, disconnects,
                 position, avg_cost, es_position, brokerPos, working, bars,
                 signal, order, trade, elapsed, poResult, waitLeft,
                 subs, pnl, gate, calls, loopError>>
  /\ UNCHANGED <<now, ticker>>

\* the range is used up, or `if not self.running: break`
run_sleep_exit ==
  /\ pc = "sleep"
  /\ sleepLeft = 0 \/ ~running
  /\ sleepLeft' = 0
  /\ pc' = "while"
  /\ UNCHANGED <<evals, cfg, running, sigReceived, connected, disconnects, position,
                 avg_cost, es_position, brokerPos, working, bars, signal,
                 order, trade, elapsed, poResult, waitLeft, subs, pnl,
                 gate, calls, loopError, cancelAge>>
  /\ UNCHANGED <<now, ticker>>

\* disconnect, called from run's finally clause
disconnect ==
  /\ pc = "finally"
  /\ IF connected
       THEN /\ connected' = FALSE
            /\ disconnects' = disconnects + 1
       ELSE UNCHANGED <<connected, disconnects>>
  /\ pc' = "returned"
  /\ UNCHANGED <<running, loopError, cancelAge>>
  /\ Frame
  /\ UNCHANGED <<now, ticker>>

\* ------------------------------------------------------------------- spec
Next ==
  \/ signal_handler
  \/ connect_gateway
  \/ connect_qualify
  \/ run_start
  \/ run_while
  \/ run_gate
  \/ get_position
  \/ get_historical_data
  \/ get_signal
  \/ execute_strategy
  \/ place_order_submit
  \/ place_order_poll
  \/ broker_fill
  \/ get_pnl_start
  \/ get_pnl_wait
  \/ get_pnl_read
  \/ run_sleep
  \/ run_sleep_exit
  \/ disconnect

Spec == Init /\ [][Next]_vars

TypeOK ==
  /\ pc \in LoopPcs \cup {"init", "qualify", "start", "finally", "returned"}
  /\ cfg \in Configs
  /\ running \in BOOLEAN /\ sigReceived \in BOOLEAN /\ connected \in BOOLEAN
  /\ disconnects \in 0..1
  /\ position \in Int /\ es_position = position
  /\ avg_cost \in AvgCosts \cup {0}
  /\ brokerPos \in Int
  /\ Len(working) <= MaxEvals
  /\ bars \in BarSeqs
  /\ signal \in {"UNSET", "NONE", "BUY", "SELL", "HOLD"}
  /\ trade \in {NoTrade, "Submitted", "Filled", "Cancelled"}
  /\ elapsed \in 0..(FillTimeout - 1)
  /\ poResult \in {"none", "True", "False"}
  /\ waitLeft \in 0..QuoteWait
  /\ subs \in 0..MaxEvals
  /\ evals \in 0..MaxEvals
  /\ sleepLeft \in 0..MaxInterval
  /\ gate \in {"none", "open", "closed"}
  /\ cancelAge \in -1..LatencyCap
  /\ now = NoTimestamp /\ ticker = NoTicker

\* --------------------------------------------------- a flat account
\* the bot starts on an account that holds nothing of the ticker and whose
\* only orders are the bot's
FlatInit == Init /\ brokerPos = 0

FlatSpec == FlatInit /\ [][Next]_vars

\* ------------------------------------------------- get_pnl as a function
\* quotes, costs and quantities for the P&L computation alone
PnlQuoteFields ==
  {[nan |-> TRUE, v |-> 0]} \cup {[nan |-> FALSE, v |-> x] : x \in -1..MaxPrice}
PnlTickers == [last : PnlQuoteFields, close : PnlQuoteFields]
PnlCosts == 0..MaxPrice
PnlQuantities == (-MaxQty..MaxQty) \ {0}

\* the thread is in get_pnl of a first evaluation that placed no order: the
\* subscription is open, ib.sleep(2) is over and the ticker is as it left it
PnlInit ==
  /\ pc = "price"
  /\ cfg \in Configs
  /\ running = TRUE
  /\ sigReceived = FALSE
  /\ connected = TRUE
  /\ disconnects = 0
  /\ position \in PnlQuantities
  /\ avg_cost \in PnlCosts
  /\ es_position = position
  /\ brokerPos = 2 * position
  /\ working = <<>>
  /\ bars = <<>>
  /\ signal = "HOLD"
  /\ order = NoOrder
  /\ trade = NoTrade
  /\ elapsed = 0
  /\ poResult = "none"
  /\ waitLeft = 0
  /\ subs = 1
  /\ pnl = NoPnl
  /\ sleepLeft = 0
  /\ gate = "open"
  /\ calls = [NoCalls EXCEPT !.positions = 1, !.reqHistoricalData = 1,
                             !.reqMktData = 1]
  /\ loopError = "none"
  /\ evals = 1
  /\ cancelAge = -1
  /\ now = NoTimestamp
  /\ ticker \in PnlTickers

\* lines 174-185 of get_pnl on the ticker it holds
get_pnl_given ==
  /\ pc = "price"
  /\ get_pnl_price(ticker)
  /\ pc' = "priced"
  /\ UNCHANGED <<evals, cfg, running, sigReceived, connected, disconnects, position,
                 avg_cost, es_position, brokerPos, working, bars, signal,
                 order, trade, elapsed, poResult, waitLeft, sleepLeft, gate,
                 loopError, cancelAge, now, ticker>>

PnlNext == get_pnl_given

PnlSpec == PnlInit /\ [][PnlNext]_vars

\* ---------------------------------------------- get_signal as a function
\* periods and bar histories for the signal computation alone
SignalConfigs ==
  {[ma_fast_period |-> f, ma_slow_period |-> w,
    position_size |-> 1, check_interval_seconds |-> 1] :
     f \in 1..MaxPeriod, w \in 1..MaxPeriod}
SignalBars == UNION {[1..n -> 1..MaxClose] : n \in 0..(MaxPeriod + 1)}

\* the thread is in get_signal of a first evaluation and
\* get_historical_data has returned the bars
SignalInit ==
  /\ pc = "signal"
  /\ cfg \in SignalConfigs
  /\ running = TRUE
  /\ sigReceived = FALSE
  /\ connected = TRUE
  /\ disconnects = 0
  /\ position = 0
  /\ avg_cost = 0
  /\ es_position = 0
  /\ brokerPos = 0
  /\ working = <<>>
  /\ bars \in SignalBars
  /\ signal = "UNSET"
  /\ order = NoOrder
  /\ trade = NoTrade
  /\ elapsed = 0
  /\ poResult = "none"
  /\ waitLeft = 0
  /\ subs = 0
  /\ pnl = NoPnl
  /\ sleepLeft = 0
  /\ gate = "open"
  /\ calls = [NoCalls EXCEPT !.positions = 1, !.reqHistoricalData = 1]
  /\ loopError = "none"
  /\ evals = 1
  /\ cancelAge = -1
  /\ now = NoTimestamp
  /\ ticker = NoTicker

SignalNext == get_signal

SignalSpec == SignalInit /\ [][SignalNext]_vars

\* ------------------------------------------ is_market_hours as a function
\* clock readings for the gate alone: every weekday, and times on both
\* sides of 09:30 and 16:00 down to the microsecond
GateTimestamps ==
  [weekday : 0..6, hour : {0, 8, 9, 10, 12, 15, 16, 17, 23},
   minute : {0, 29, 30, 31, 59}, second : {0, 1, 59},
   microsecond : {0, 1, 999999}]

\* the thread is in is_market_hours of the first iteration and
\* datetime.now() has returned
GateInit ==
  /\ pc = "clock"
  /\ cfg \in Configs
  /\ running = TRUE
  /\ sigReceived = FALSE
  /\ connected = TRUE
  /\ disconnects = 0
  /\ position = 0
  /\ avg_cost = 0
  /\ es_position = 0
  /\ brokerPos = 0
  /\ working = <<>>
  /\ bars = <<>>
  /\ signal = "UNSET"
  /\ order = NoOrder
  /\ trade = NoTrade
  /\ elapsed = 0
  /\ poResult = "none"
  /\ waitLeft = 0
  /\ subs = 0
  /\ pnl = NoPnl
  /\ sleepLeft = 0
  /\ gate = "none"
  /\ calls = NoCalls
  /\ loopError = "none"
  /\ evals = 0
  /\ cancelAge = -1
  /\ now \in GateTimestamps
  /\ ticker = NoTicker

\* lines 217-224 of is_market_hours on the reading it holds
is_market_hours_given ==
  /\ pc = "clock"
  /\ gate' = IF is_market_hours(now) THEN "open" ELSE "closed"
  /\ pc' = "clocked"
  /\ UNCHANGED <<evals, cfg, running, sigReceived, connected, disconnects, position,
                 avg_cost, es_position, brokerPos, working, bars, signal,
                 order, trade, elapsed, poResult, waitLeft, subs, pnl,
                 sleepLeft, calls, loopError, cancelAge, now, ticker>>

GateNext == is_market_hours_given

GateSpec == GateInit /\ [][GateNext]_vars

\* ================================================================ claims
PnlPcs == {"pnl", "pnl_wait", "pnl_read"}
AfterDecidePcs == {"submit", "poll", "pnl", "pnl_wait", "pnl_read", "sleep"}

\* C1: in every loop iteration (one call of execute_strategy) the broker's
\* placeOrder is called at most once, whatever the signal, the position and
\* the outcome of the order.
C1_AtMostOneOrderPerCycle == calls.placeOrder <= 1

\* a cycle whose only order timed out has gone on to its P&L step
C1_Witness ==
  /\ pc \in PnlPcs
  /\ calls.placeOrder = 1
  /\ poResult = "False"
  /\ trade = "Submitted"

\* C2: when run() has returned, the gateway connection is not connected and
\* disconnect was performed at most once.
C2_ReleasedOnReturn == pc = "returned" => ~connected /\ disconnects <= 1

\* C3: outside get_pnl no quote subscription is open.
C3_NoSubscriptionLeft == pc \notin {"pnl_wait", "pnl_read"} => subs = 0

\* C4: the loop is never still running more than one second after the
\* cancellation flag was set.
C4_ExitWithinOneSecond == pc \in LoopPcs => cancelAge <= 1

\* C5: once a shutdown signal has been delivered the flag stays cancelled
\* (self.running is never True again) and no evaluation is started.
C5_SignalNeverOverwritten ==
  [][sigReceived => (~running' /\ (pc' = "position" => pc = "position"))]_vars

\* the parts of C6: the wait loop, the state after the return, the return
\* step and the loop's variant
C6_Waiting ==
  pc = "poll" =>
    /\ trade = "Submitted"
    /\ elapsed < FillTimeout
    /\ calls.placeOrder = 1
    /\ poResult = "none"
    /\ ENABLED place_order_poll

C6_Returned ==
  (pc \in PnlPcs /\ poResult # "none") =>
    /\ calls.placeOrder = 1
    /\ poResult = "True" <=> trade = "Filled"

C6_Return ==
  (pc = "poll" /\ pc' # "poll") =>
    /\ pc' = "pnl"
    /\ calls' = calls
    /\ poResult' \in {"True", "False"}
    /\ trade' = "Submitted" =>
         /\ elapsed = FillTimeout - 1
         /\ poResult' = "False"
         /\ working' = Append(working, Signed(order))
    /\ trade' # "Submitted" => working' = working

C6_Step == (pc = "poll" /\ pc' = "poll" /\ elapsed' # elapsed) => elapsed' = elapsed + 1

\* C6: place_order submits one order, waits in 1-second steps while the
\* order is live and fewer than 30 seconds have passed, can always take its
\* next step, and on leaving the wait returns True iff the status is Filled;
\* an order that is still live after 30 seconds makes it return False, is
\* left at the broker, and no other order is submitted.
C6_OrderExecutor ==
  /\ [](C6_Waiting /\ C6_Returned)
  /\ [][C6_Return /\ C6_Step]_vars

\* place_order has returned False after the full 30 seconds and the order is
\* still at the broker
C6_Witness ==
  /\ pc = "pnl"
  /\ poResult = "False"
  /\ trade = "Submitted"
  /\ working # <<>>
  /\ cancelAge = -1

\* C7: once the cycle has decided, the order is BUY N for a BUY signal with
\* position 0, BUY |p| + N for a BUY signal with p < 0, SELL p for a SELL
\* signal with p > 0, and no order in every other case.
C7_Sizing ==
  (pc \in AfterDecidePcs /\ signal \in {"BUY", "SELL", "HOLD"}) =>
    LET p == es_position
        N == cfg.position_size
    IN  /\ (signal = "BUY" /\ p = 0) => order = [action |-> "BUY", quantity |-> N]
        /\ (signal = "BUY" /\ p < 0) =>
             order = [action |-> "BUY", quantity |-> (-p) + N]
        /\ (signal = "SELL" /\ p > 0) =>
             order = [action |-> "SELL", quantity |-> p]
        /\ ((signal = "BUY" /\ p > 0) \/ (signal = "SELL" /\ p <= 0)
              \/ signal = "HOLD") => (order = NoOrder /\ calls.placeOrder = 0)

\* a BUY signal met a short position and the order to submit covers it
C7_Witness ==
  /\ pc = "submit"
  /\ signal = "BUY"
  /\ es_position < 0
  /\ order.quantity = cfg.position_size - es_position

\* C8: in an iteration whose gate check returned false no broker call is
\* made: no position query, no bar fetch, no order, no quote subscription.
C8_ClosedGateSkips ==
  gate = "closed" => (calls = NoCalls /\ pc \in {"sleep", "while"})

\* a closed-gate iteration has slept its interval out
C8_Witness == gate = "closed" /\ pc = "sleep" /\ sleepLeft = 0 /\ running

\* the parts of C9: the cycle after a failed order, and how the loop is left
C9_Failed ==
  (poResult = "False" /\ pc \in EvalPcs \ {"position"}) =>
    (pc \in PnlPcs /\ calls.placeOrder = 1)

C9_Leave ==
  /\ (poResult = "False" /\ pc \in PnlPcs \cup {"sleep"} /\ pc' \notin LoopPcs)
       => loopError' = "reqMktData"
  /\ (pc = "while" /\ pc' \notin LoopPcs) => ~running

\* C9: a failed order (exception, rejection, timeout) makes place_order
\* return False and the cycle go on to its P&L step with one order
\* submitted; no exception of placeOrder reaches the loop, and from such a
\* cycle the loop is left only by cancellation at the loop test or by an
\* exception of the quote request.
C9_OrderFailureNotFatal ==
  /\ [](C9_Failed /\ loopError # "placeOrder")
  /\ [][C9_Leave]_vars

\* the evaluation after one whose order failed has started
C9_Witness == pc = "position" /\ poResult = "False" /\ evals = 2

\* the parts of C10: the step that classifies a short history, and the steps
\* that follow it
C10_Short ==
  (pc = "signal" /\ pc' # pc
     /\ Len(bars) < Max(cfg.ma_fast_period, cfg.ma_slow_period))
    => (signal' = "NONE" /\ pc' = "sleep")

C10_Continue ==
  (signal = "NONE" /\ pc' # pc) => (pc' \in LoopPcs \/ (pc = "while" /\ ~running))

\* C10: a bar history shorter than max(fast, slow) gives the signal None,
\* execute_strategy returns to the interval loop with no order submitted,
\* and the loop goes on to its next iteration unless cancelled.
C10_ShortHistorySkips ==
  /\ [](signal = "NONE" =>
          (calls.placeOrder = 0 /\ pc \in {"sleep", "while"} /\ loopError = "none"))
  /\ [][C10_Short /\ C10_Continue]_vars

\* a cycle with too few bars is back in the interval loop
C10_Witness ==
  /\ signal = "NONE"
  /\ pc = "sleep"
  /\ calls.reqHistoricalData = 1
  /\ calls.placeOrder = 0

\* C11: once an exception has escaped a step of an evaluation, the loop is
\* left: the thread is in run's finally clause or has returned, no position
\* query and no order submission can happen any more, disconnect can run
\* (the thread is not stuck), and when run() has returned the connection was
\* released by one disconnect.
C11_LoopErrorStops ==
  loopError # "none" =>
    /\ pc \in {"finally", "returned"}
    /\ ~ENABLED get_position
    /\ ~ENABLED place_order_submit
    /\ pc = "finally" => ENABLED disconnect
    /\ pc = "returned" => (~connected /\ disconnects = 1)

\* the quote subscription failed in the second evaluation and run() has
\* returned after disconnecting
C11_Witness ==
  /\ loopError = "reqMktData"
  /\ pc = "returned"
  /\ evals = 2
  /\ disconnects = 1

\* C12: with position 0 get_pnl is never in its quote wait or reading a
\* ticker, and once it has returned in an iteration the result is the value
\* 0 and the iteration has made no reqMktData and no cancelMktData call.
C12_FlatPnlIsZero ==
  /\ pc \in {"pnl_wait", "pnl_read"} => position # 0
  /\ (position = 0 /\ pnl # NoPnl) =>
       /\ pnl = [kind |-> "value", v |-> 0]
       /\ calls.reqMktData = 0
       /\ calls.cancelMktData = 0

\* get_pnl returned 0 for a flat position in a cycle whose order was filled
C12_Witness ==
  /\ position = 0
  /\ pnl = [kind |-> "value", v |-> 0]
  /\ pc = "sleep"
  /\ trade = "Filled"

\* a quote field that is present and positive
C13_Usable(x) == ~x.nan /\ x.v > 0

\* C13: for a non-zero position, get_pnl on a ticker returns
\* (last - avg_cost) * position when last is present and positive, else
\* (close - avg_cost) * position when close is present and positive, else
\* None (not the value 0, and with no exception).
C13_PnlOfTicker ==
  pc = "priced" =>
    /\ loopError = "none"
    /\ IF C13_Usable(ticker.last)
         THEN pnl = [kind |-> "value", v |-> (ticker.last.v - avg_cost) * position]
         ELSE IF C13_Usable(ticker.close)
           THEN pnl = [kind |-> "value",
                       v |-> (ticker.close.v - avg_cost) * position]
           ELSE pnl.kind = "none"

\* a short position marked at the prior close, below its cost: a gain
C13_Witness ==
  /\ pc = "priced"
  /\ position < 0
  /\ ticker.last.nan
  /\ ticker.close = [nan |-> FALSE, v |-> 1]
  /\ avg_cost = 3
  /\ pnl = [kind |-> "value", v |-> 2 * (-position)]

\* the sum of the n most recent closes of b, for n <= Len(b)
RECURSIVE C14_SumRecent(_, _)
C14_SumRecent(b, n) ==
  IF n = 0 THEN 0 ELSE b[Len(b) - n + 1] + C14_SumRecent(b, n - 1)

\* C14: on a history of at least max(fast, slow) bars get_signal returns BUY
\* when the mean of the last `fast` closes is greater than the mean of the
\* last `slow` closes, SELL when it is smaller and HOLD when the two are
\* equal (the means compared as sum_fast * slow against sum_slow * fast).
C14_Classification ==
  [][(pc = "signal" /\ pc' # "signal"
        /\ Len(bars) >= Max(cfg.ma_fast_period, cfg.ma_slow_period)) =>
       LET f == cfg.ma_fast_period
           w == cfg.ma_slow_period
           l == C14_SumRecent(bars, f) * w
           r == C14_SumRecent(bars, w) * f
       IN  signal' = IF l > r THEN "BUY" ELSE IF l < r THEN "SELL" ELSE "HOLD"]_vars

\* two different periods gave equal means: HOLD
C14_Witness ==
  /\ pc = "decide"
  /\ signal = "HOLD"
  /\ cfg.ma_fast_period < cfg.ma_slow_period
  /\ calls.reqHistoricalData = 1

\* C15: is_market_hours returns True iff the weekday is Monday..Friday and
\* the time of day is in [09:30:00.000000, 16:00:00.000000], both ends
\* included; the time is taken as minutes since midnight, 16:00 counting
\* only with zero seconds and microseconds.
C15_MarketClockGate ==
  pc = "clocked" =>
    LET m == now.hour * 60 + now.minute
    IN  (gate = "open") <=>
          /\ now.weekday \in 0..4
          /\ \/ 570 <= m /\ m < 960
             \/ m = 960 /\ now.second = 0 /\ now.microsecond = 0

\* Friday 16:00:00.000000, the closing bound, is permitted
C15_Witness ==
  /\ pc = "clocked"
  /\ gate = "open"
  /\ now = [weekday |-> 4, hour |-> 16, minute |-> 0, second |-> 0,
            microsecond |-> 0]

\* the parts of C16: the order of the steps, read off the broker calls the
\* iteration has made so far; the query step; where the sizing position
\* changes
C16_StepOrder ==
  /\ pc = "position" => calls = NoCalls
  /\ pc \in EvalPcs \ {"position"} => calls.positions = 1
  /\ pc = "history" => calls.reqHistoricalData = 0
  /\ pc \in EvalPcs \ {"position", "history"} => calls.reqHistoricalData = 1
  /\ pc \in {"position", "history", "signal"} => signal = "UNSET"
  /\ pc \in {"position", "history", "signal", "decide"} =>
       (order = NoOrder /\ calls.placeOrder = 0)
  /\ pc \in {"decide", "submit", "poll"} \cup PnlPcs =>
       signal \in {"BUY", "SELL", "HOLD"}
  /\ pc \in {"submit", "poll"} => order # NoOrder
  /\ pc \in {"poll"} \cup PnlPcs =>
       calls.placeOrder = IF order = NoOrder THEN 0 ELSE 1
  /\ pc \in EvalPcs \ PnlPcs => (calls.reqMktData = 0 /\ pnl = NoPnl)

C16_Query ==
  (pc = "position" /\ pc' = "history") =>
    /\ Abs(2 * es_position') <= Abs(brokerPos)
    /\ 2 * es_position' - brokerPos \in {-1, 0, 1}

C16_OnlyQuery == es_position' # es_position => (pc = "position" /\ pc' = "history")

\* C16: in every evaluation the broker calls come in the order positions,
\* reqHistoricalData, placeOrder, reqMktData; the position execute_strategy
\* sizes on is set only by the position query of the same iteration, to the
\* holding the broker has at that moment (truncated to whole shares).
C16_FreshPosition ==
  /\ []C16_StepOrder
  /\ [][C16_Query /\ C16_OnlyQuery]_vars

\* the second evaluation sells the whole position its own query returned
C16_Witness ==
  /\ evals = 2
  /\ pc = "submit"
  /\ calls.positions = 1
  /\ es_position > 0
  /\ order = [action |-> "SELL", quantity |-> es_position]
  /\ brokerPos = 2 * es_position

\* C17: when an evaluation whose signal is None is back in the interval
\* loop, its P&L step has run: get_pnl has returned something.
C17_PnlAfterNoSignal == (signal = "NONE" /\ pc = "sleep") => pnl # NoPnl

\* the parts of C18: where the held position and cost change, and what the
\* P&L step computes on
C18_OnlyQuery ==
  (position' # position \/ avg_cost' # avg_cost) =>
    (pc = "position" /\ pc' = "history")

C18_PnlOnQueried ==
  (pc \in PnlPcs \cup {"sleep"} /\ signal \in {"BUY", "SELL", "HOLD"}) =>
    /\ position = es_position
    /\ (pnl.kind = "value" /\ position # 0) =>
         \E t \in Tickers : \E price \in {t.last.v, t.close.v} :
           pnl.v = (price - avg_cost) * es_position

\* C18: self.position and self.avg_cost change only in the position query;
\* submission, fill, timeout and get_pnl leave them alone, so from the P&L
\* step on the held quantity is still the one the query of this cycle
\* returned and a P&L value is computed on it and on the cost read with it.
C18_PositionFrame ==
  /\ []C18_PnlOnQueried
  /\ [][C18_OnlyQuery]_vars

\* a short position was covered by a filled BUY in this cycle, the broker is
\* long, and the P&L was computed on the short quantity read before
C18_Witness ==
  /\ pc = "sleep"
  /\ trade = "Filled"
  /\ order.action = "BUY"
  /\ position < 0
  /\ brokerPos > 0
  /\ pnl.kind = "value"
  /\ pnl.v = (2 - avg_cost) * position

\* C19: on an account that was flat when the bot started, the broker-side
\* long position (counted in half shares) never exceeds position_size.
C19_LongAtMostSize == brokerPos <= 2 * cfg.position_size

\* C20: while the cancellation flag is set by a delivered shutdown signal,
\* no step submits an order.
C20_NoOrderAfterSignal ==
  [][(sigReceived /\ ~running) => calls'.placeOrder <= calls.placeOrder]_vars

====
